---- MODULE Spec2Model ----
(***************************************************************************)
(* A model of handout/code/src/twitter.py: the tokenizer (extract_words),  *)
(* the vocabulary builder (extract_dictionary), the bag-of-words           *)
(* vectorizer (extract_feature_vectors), the metric evaluator              *)
(* (performance), the k-fold averaging loop (cv_performance) and the       *)
(* hyperparameter sweep (select_param_linear).                             *)
(*                                                                         *)
(* A string is a sequence of one-character strings, a file is a sequence   *)
(* of lines, a Python dict is a function whose DOMAIN is its key set.      *)
(***************************************************************************)
EXTENDS Integers, Sequences, FiniteSets, TLC

VARIABLES
    pc,               \* position of the running function, or its outcome
    infile,           \* the lines of the text file being read
    word_list,        \* dict word -> index
    index,            \* extract_dictionary: next index to hand out
    num,              \* number of the line being processed (1-based here)
    extracted_words,  \* the words of the line being processed
    wpos,             \* position of the next word of extracted_words
    feature_matrix,   \* extract_feature_vectors: rows of 0/1 cells
    y_true,           \* performance: known labels
    y_pred,           \* performance: continuous-valued predictions
    metric,           \* the metric argument
    score,            \* the value returned by performance or cv_performance
    y,                \* cv_performance, select_param_linear: labels of the examples
    kf,               \* the folds: a sequence of (train, test) index sequences
    clf,              \* the classifier: what it was last fit on
    fold,             \* cv_performance: number of the fold being processed
    accuracy_list,    \* cv_performance: the per-fold scores so far
    scored_with,      \* cv_performance: the model and rows of the latest decision_function
    c,                \* select_param_linear: loop index into C_range (1-based here)
    max_score,        \* select_param_linear: best score so far
    best_c,           \* select_param_linear: candidate of the best score so far
    cur_perf          \* select_param_linear: the values of cur_perf, one per candidate tried

textVars == <<infile, word_list, index, num, extracted_words, wpos, feature_matrix>>

perfVars == <<y_true, y_pred>>

cvVars == <<y, kf, clf, fold, accuracy_list, scored_with>>

selVars == <<c, max_score, best_c, cur_perf>>

evalVars == <<perfVars, metric, score, cvVars, selVars>>

vars == <<pc, textVars, evalVars>>

----------------------------------------------------------------------------
(* Bounds *)

MaxChars == 4        \* characters of a file given to extract_dictionary
MaxLines == 2        \* lines of a file given to extract_dictionary
MaxFeatChars == 2    \* characters of a file given to extract_feature_vectors
MaxFeatLines == 2    \* lines of a file given to extract_feature_vectors
MaxVocabChars == 2   \* characters of the line a vocabulary is built from
MaxVecLen == 3       \* length of the vectors given to performance
MaxFolds == 3        \* folds given to cv_performance
MaxExamples == 15    \* examples given to cv_performance, metric "accuracy"
MaxFewExamples == 6  \* examples given to cv_performance, the other metrics
MaxSelFolds == 2     \* folds given to select_param_linear
MaxSelExamples == 6  \* examples given to select_param_linear, metric "accuracy"
MaxSelFewExamples == 4 \* examples given to select_param_linear, the other metrics

----------------------------------------------------------------------------
(* Characters and strings *)

\* a lowercase letter, an uppercase letter, a punctuation mark, whitespace
Alphabet == {"a", "B", "!", " "}

\* string.punctuation restricted to the alphabet, in iteration order
punctuation == <<"!">>

Whitespace == {" "}

lower(ch) == IF ch = "B" THEN "b" ELSE ch

RECURSIVE StrLower(_)
StrLower(s) == IF s = <<>> THEN <<>> ELSE <<lower(Head(s))>> \o StrLower(Tail(s))

\* str.replace(c, ' ' + c + ' ')
RECURSIVE replace(_, _)
replace(s, ch) ==
    IF s = <<>> THEN <<>>
    ELSE (IF Head(s) = ch THEN <<" ", ch, " ">> ELSE <<Head(s)>>) \o replace(Tail(s), ch)

\* for c in punctuation: input_string = input_string.replace(c, ' ' + c + ' ')
RECURSIVE PadPunctuation(_, _)
PadPunctuation(s, i) ==
    IF i > Len(punctuation) THEN s
    ELSE PadPunctuation(replace(s, punctuation[i]), i + 1)

\* str.split(): split on runs of whitespace, no empty fragments
RECURSIVE split(_, _)
split(s, cur) ==
    IF s = <<>> THEN (IF cur = <<>> THEN <<>> ELSE <<cur>>)
    ELSE IF Head(s) \in Whitespace
         THEN (IF cur = <<>> THEN <<>> ELSE <<cur>>) \o split(Tail(s), <<>>)
         ELSE split(Tail(s), Append(cur, Head(s)))

extract_words(input_string) == split(StrLower(PadPunctuation(input_string, 1)), <<>>)

StringsUpTo(n) == UNION {[1..k -> Alphabet] : k \in 0..n}

\* the files of at most n lines and at most c characters
RECURSIVE FilesOf(_, _)
FilesOf(n, chars) ==
    IF n = 0 THEN {<<>>}
    ELSE {<<>>} \cup UNION {{<<l>> \o f : f \in FilesOf(n - 1, chars - Len(l))}
                                : l \in StringsUpTo(chars)}

Range(s) == {s[i] : i \in 1..Len(s)}

RECURSIVE WordsOfLines(_, _)
WordsOfLines(f, n) == IF n = 0 THEN <<>> ELSE WordsOfLines(f, n - 1) \o extract_words(f[n])

----------------------------------------------------------------------------
(* Python floats                                                           *)
(*                                                                         *)
(* A float is a sign and a magnitude. The magnitude is a fixed-point       *)
(* binary numeral of Width bits, IntBits of them before the point, kept as *)
(* NumLimbs limbs of LimbBits bits, most significant limb first. Every     *)
(* operation computes the exact result and rounds it to Precision          *)
(* significant bits, ties to even, as IEEE 754 double arithmetic does. The *)
(* scores of this program are 0 or lie between 2^-(FracBits - Precision)   *)
(* and 2^IntBits in magnitude, where the numeral is exact.                 *)

Precision == 53      \* significant bits of a Python float
IntBits == 4
LimbBits == 17
NumLimbs == 4
Width == NumLimbs * LimbBits
FracBits == Width - IntBits

Limbs == 1..NumLimbs

ZeroMag == [j \in Limbs |-> 0]

\* bit i of a magnitude, 1 <= i <= Width, bit 1 the most significant
Bit(m, i) == (m[(i - 1) \div LimbBits + 1] \div 2^(LimbBits - 1 - ((i - 1) % LimbBits))) % 2

\* the magnitude of a small natural number n < 2^IntBits
MagOfNat(n) == [j \in Limbs |-> IF j = 1 THEN n * 2^(LimbBits - IntBits) ELSE 0]

\* float(n) of a small int n
Fl(n) == [neg |-> n < 0, mag |-> MagOfNat(IF n < 0 THEN -n ELSE n)]

\* the carry out of limbs j..NumLimbs of a + b
RECURSIVE CarryFrom(_, _, _)
CarryFrom(a, b, j) ==
    IF j > NumLimbs THEN 0 ELSE (a[j] + b[j] + CarryFrom(a, b, j + 1)) \div 2^LimbBits

\* the exact sum of two magnitudes
AddMag(a, b) == [j \in Limbs |-> (a[j] + b[j] + CarryFrom(a, b, j + 1)) % 2^LimbBits]

\* the position of the leading 1 of a magnitude, Width + 1 for zero
FirstOne(m) ==
    IF m = ZeroMag THEN Width + 1
    ELSE LET j == CHOOSE k \in Limbs : m[k] # 0 /\ \A h \in 1..(k - 1) : m[h] = 0
             e == CHOOSE k \in 0..(LimbBits - 1) : m[j] \div 2^k = 1
         IN j * LimbBits - e

\* a magnitude with the bits after position last cleared
KeepTo(m, last) ==
    [j \in Limbs |->
        IF last >= j * LimbBits THEN m[j]
        ELSE IF last <= (j - 1) * LimbBits THEN 0
        ELSE (m[j] \div 2^(j * LimbBits - last)) * 2^(j * LimbBits - last)]

\* the magnitude whose only 1 is bit i
UnitAt(i) ==
    [j \in Limbs |-> IF j = (i - 1) \div LimbBits + 1
                     THEN 2^(LimbBits - 1 - ((i - 1) % LimbBits)) ELSE 0]

\* round to nearest, ties to even; sticky: the exact value has nonzero bits
\* beyond the numeral
RoundMag(m, sticky) ==
    LET last == FirstOne(m) + Precision - 1
    IN IF last >= Width THEN m
       ELSE LET rest == sticky \/ \E i \in (last + 2)..Width : Bit(m, i) = 1
                up == Bit(m, last + 1) = 1 /\ (rest \/ Bit(m, last) = 1)
            IN IF up THEN AddMag(KeepTo(m, last), UnitAt(last)) ELSE KeepTo(m, last)

IsZero(a) == a.mag = ZeroMag

\* a + b for floats of one sign (the scores of one call are all >= 0 or all -1)
FlAdd(a, b) ==
    CASE IsZero(a) -> b
      [] IsZero(b) -> a
      [] a.neg = b.neg -> [neg |-> a.neg, mag |-> RoundMag(AddMag(a.mag, b.mag), FALSE)]

\* the remainder of limbs 1..j of a magnitude divided by k
RECURSIVE RemTo(_, _, _)
RemTo(a, k, j) == IF j = 0 THEN 0 ELSE (RemTo(a, k, j - 1) * 2^LimbBits + a[j]) % k

\* the quotient of a magnitude by a positive int, the remainder dropped
DivMag(a, k) == [j \in Limbs |-> (RemTo(a, k, j - 1) * 2^LimbBits + a[j]) \div k]

\* a / float(k), k a positive int
FlDiv(a, k) ==
    [neg |-> a.neg, mag |-> RoundMag(DivMag(a.mag, k), RemTo(a.mag, k, NumLimbs) # 0)]

\* the float nearest to m / n, for ints 0 <= m < 2^IntBits and n > 0
FlRatio(m, n) == FlDiv(Fl(m), n)

\* a >= b on magnitudes
GeMag(a, b) ==
    \/ a = b
    \/ \E j \in Limbs : a[j] > b[j] /\ \A h \in 1..(j - 1) : a[h] = b[h]

\* a >= b
FlGe(a, b) ==
    IF a.neg # b.neg THEN b.neg
    ELSE IF a.neg THEN GeMag(b.mag, a.mag) ELSE GeMag(a.mag, b.mag)

\* sum(accuracy_list): 0 + s1 + s2 + ... from left to right
RECURSIVE FlSum(_)
FlSum(list) ==
    IF list = <<>> THEN Fl(0)
    ELSE FlAdd(FlSum(SubSeq(list, 1, Len(list) - 1)), list[Len(list)])

----------------------------------------------------------------------------
(* Outcomes of a call: a returned value or a raised exception *)

NoValue == [neg |-> FALSE, mag |-> <<>>]

Return(v) == [raised |-> "none", value |-> v]

Raise(e) == [raised |-> e, value |-> NoValue]

----------------------------------------------------------------------------
(* performance *)

\* the continuous-valued predictions a classifier gives
PredVals == {-1, 0, 1}

Labels == {1, -1}

SupportedMetrics == {"accuracy", "f1_score", "auroc"}

\* the metric arguments tried: the supported ones, the docstring's spelling
\* 'f1-score', and an unrelated name
MetricArgs == SupportedMetrics \cup {"f1-score", "precision"}

np_sign(v) == IF v > 0 THEN 1 ELSE IF v < 0 THEN -1 ELSE 0

\* y_label = np.sign(y_pred) without y_label[y_label==0] = 1
y_label_ZeroKept(pred) == [i \in 1..Len(pred) |-> np_sign(pred[i])]

\* y_label = np.sign(y_pred); y_label[y_label==0] = 1
y_label_of(pred) ==
    [i \in 1..Len(pred) |-> IF np_sign(pred[i]) = 0 THEN 1 ELSE np_sign(pred[i])]

\* sklearn.metrics.accuracy_score
accuracy_score(true, label) ==
    FlRatio(Cardinality({i \in 1..Len(true) : true[i] = label[i]}), Len(true))

\* sklearn.metrics.f1_score, positive class 1: 2tp / (2tp + fp + fn), and 0
\* (with a warning) when there is no true positive
f1_score(true, label) ==
    LET tp == Cardinality({i \in 1..Len(true) : true[i] = 1 /\ label[i] = 1})
        fp == Cardinality({i \in 1..Len(true) : true[i] # 1 /\ label[i] = 1})
        fn == Cardinality({i \in 1..Len(true) : true[i] = 1 /\ label[i] # 1})
    IN IF tp = 0 THEN Fl(0) ELSE FlRatio(2 * tp, 2 * tp + fp + fn)

\* sklearn.metrics.roc_auc_score: the share of (positive, negative) pairs the
\* scores rank in the right order, a tie counting half; ValueError when
\* y_true holds one class only
roc_auc_score(true, pred) ==
    LET pos == {i \in 1..Len(true) : true[i] = 1}
        neg == {i \in 1..Len(true) : true[i] # 1}
        gt == Cardinality({p \in pos \X neg : pred[p[1]] > pred[p[2]]})
        eq == Cardinality({p \in pos \X neg : pred[p[1]] = pred[p[2]]})
    IN IF pos = {} \/ neg = {} THEN Raise("ValueError")
       ELSE Return(FlRatio(2 * gt + eq, 2 * Cardinality(pos) * Cardinality(neg)))

\* performance whose last branch returns 0
performance_ZeroForUnknown(true, pred, m) ==
    IF m = "accuracy" THEN Return(accuracy_score(true, y_label_of(pred)))
    ELSE IF m = "f1_score" THEN Return(f1_score(true, y_label_of(pred)))
    ELSE IF m = "auroc" THEN roc_auc_score(true, pred)
    ELSE Return(Fl(0))

performance(true, pred, m) ==
    IF m = "accuracy" THEN Return(accuracy_score(true, y_label_of(pred)))
    ELSE IF m = "f1_score" THEN Return(f1_score(true, y_label_of(pred)))
    ELSE IF m = "auroc" THEN roc_auc_score(true, pred)
    ELSE Return(Fl(-1))

----------------------------------------------------------------------------
(* Values of the variables a specification does not use *)

TextIdle ==
    /\ infile = <<>>
    /\ word_list = <<>>
    /\ index = 0
    /\ num = 0
    /\ extracted_words = <<>>
    /\ wpos = 1
    /\ feature_matrix = <<>>

PerfIdle == y_true = <<>> /\ y_pred = <<>>

Unfitted == [fitted |-> FALSE, X |-> <<>>, y |-> <<>>]

NotScored == [model |-> Unfitted, X |-> <<>>]

CvIdle ==
    /\ y = <<>>
    /\ kf = <<>>
    /\ clf = Unfitted
    /\ fold = 1
    /\ accuracy_list = <<>>
    /\ scored_with = NotScored

SelIdle ==
    /\ c = 1
    /\ max_score = Fl(-1)
    /\ best_c = <<-1, 1>>
    /\ cur_perf = <<>>

EvalIdle == PerfIdle /\ metric = "accuracy" /\ score = NoValue /\ CvIdle /\ SelIdle

----------------------------------------------------------------------------
(* extract_dictionary *)

InitDict ==
    /\ pc = "dict"
    /\ infile \in FilesOf(MaxLines, MaxChars)
    /\ word_list = <<>>
    /\ index = 0
    /\ num = 0
    /\ extracted_words = <<>>
    /\ wpos = 1
    /\ feature_matrix = <<>>
    /\ EvalIdle

\* for line in fid: extracted_words = extract_words(line)
DictNextLine ==
    /\ pc = "dict"
    /\ wpos > Len(extracted_words)
    /\ num < Len(infile)
    /\ num' = num + 1
    /\ extracted_words' = extract_words(infile[num + 1])
    /\ wpos' = 1
    /\ UNCHANGED <<pc, infile, word_list, index, feature_matrix>>
    /\ UNCHANGED evalVars

\* for word in extracted_words: without the membership test
DictWord_NoMembershipTest ==
    /\ pc = "dict"
    /\ wpos <= Len(extracted_words)
    /\ LET word == extracted_words[wpos] IN
         /\ word_list' = [w \in DOMAIN word_list \cup {word} |->
                             IF w = word THEN index ELSE word_list[w]]
         /\ index' = index + 1
    /\ wpos' = wpos + 1
    /\ UNCHANGED <<pc, infile, num, extracted_words, feature_matrix>>
    /\ UNCHANGED evalVars

\* for word in extracted_words: if word not in word_list: ...
DictWord ==
    /\ pc = "dict"
    /\ wpos <= Len(extracted_words)
    /\ LET word == extracted_words[wpos] IN
         IF word \notin DOMAIN word_list
         THEN /\ word_list' = [w \in DOMAIN word_list \cup {word} |->
                                  IF w = word THEN index ELSE word_list[w]]
              /\ index' = index + 1
         ELSE UNCHANGED <<word_list, index>>
    /\ wpos' = wpos + 1
    /\ UNCHANGED <<pc, infile, num, extracted_words, feature_matrix>>
    /\ UNCHANGED evalVars

\* return word_list
DictReturn ==
    /\ pc = "dict"
    /\ wpos > Len(extracted_words)
    /\ num = Len(infile)
    /\ pc' = "dict_done"
    /\ UNCHANGED textVars
    /\ UNCHANGED evalVars

NextDict == DictNextLine \/ DictWord \/ DictReturn

SpecDict == InitDict /\ [][NextDict]_vars

\* the dictionary extract_dictionary returns for a sequence of words
RECURSIVE DictOfWords(_, _)
DictOfWords(ws, d) ==
    IF ws = <<>> THEN d
    ELSE DictOfWords(Tail(ws),
            IF Head(ws) \in DOMAIN d THEN d
            ELSE [w \in DOMAIN d \cup {Head(ws)} |->
                     IF w = Head(ws) THEN Cardinality(DOMAIN d) ELSE d[w]])

extract_dictionary(f) == DictOfWords(WordsOfLines(f, Len(f)), <<>>)

----------------------------------------------------------------------------
(* extract_feature_vectors *)

\* np.zeros((num_lines, num_words))
zeros(num_lines, num_words) == [r \in 1..num_lines |-> [j \in 1..num_words |-> 0]]

InitFeat ==
    /\ pc = "feat_start"
    /\ infile \in FilesOf(MaxFeatLines, MaxFeatChars)
    /\ word_list \in {extract_dictionary(f) : f \in FilesOf(1, MaxVocabChars)}
    /\ index = 0
    /\ num = 0
    /\ extracted_words = <<>>
    /\ wpos = 1
    /\ feature_matrix = <<>>
    /\ EvalIdle

\* num_lines, num_words, feature_matrix = np.zeros(...)
FeatStart ==
    /\ pc = "feat_start"
    /\ feature_matrix' = zeros(Len(infile), Cardinality(DOMAIN word_list))
    /\ pc' = "feat"
    /\ UNCHANGED <<infile, word_list, index, num, extracted_words, wpos>>
    /\ UNCHANGED evalVars

\* for num, line in enumerate(fid, 0): extracted_words = extract_words(line)
FeatNextLine ==
    /\ pc = "feat"
    /\ wpos > Len(extracted_words)
    /\ num < Len(infile)
    /\ num' = num + 1
    /\ extracted_words' = extract_words(infile[num + 1])
    /\ wpos' = 1
    /\ UNCHANGED <<pc, infile, word_list, index, feature_matrix>>
    /\ UNCHANGED evalVars

\* for word in extracted_words: a word that is no key is skipped
FeatWord_SkipUnknown ==
    /\ pc = "feat"
    /\ wpos <= Len(extracted_words)
    /\ LET word == extracted_words[wpos] IN
         IF word \in DOMAIN word_list
         THEN feature_matrix' = [feature_matrix EXCEPT ![num][word_list[word] + 1] = 1]
         ELSE UNCHANGED feature_matrix
    /\ wpos' = wpos + 1
    /\ UNCHANGED <<pc, infile, word_list, index, num, extracted_words>>
    /\ UNCHANGED evalVars

\* for word in extracted_words: the cell is incremented instead of set
FeatWord_Count ==
    /\ pc = "feat"
    /\ wpos <= Len(extracted_words)
    /\ LET word == extracted_words[wpos] IN
         IF word \in DOMAIN word_list
         THEN /\ feature_matrix' = [feature_matrix EXCEPT ![num][word_list[word] + 1] = @ + 1]
              /\ wpos' = wpos + 1
              /\ pc' = pc
         ELSE /\ pc' = "KeyError"
              /\ UNCHANGED <<feature_matrix, wpos>>
    /\ UNCHANGED <<infile, word_list, index, num, extracted_words>>
    /\ UNCHANGED evalVars

\* for word in extracted_words: feature_matrix[num][word_list[word]] = 1
\* (word_list[word] raises KeyError when word is no key of the dict)
FeatWord ==
    /\ pc = "feat"
    /\ wpos <= Len(extracted_words)
    /\ LET word == extracted_words[wpos] IN
         IF word \in DOMAIN word_list
         THEN /\ feature_matrix' = [feature_matrix EXCEPT ![num][word_list[word] + 1] = 1]
              /\ wpos' = wpos + 1
              /\ pc' = pc
         ELSE /\ pc' = "KeyError"
              /\ UNCHANGED <<feature_matrix, wpos>>
    /\ UNCHANGED <<infile, word_list, index, num, extracted_words>>
    /\ UNCHANGED evalVars

\* return feature_matrix
FeatReturn ==
    /\ pc = "feat"
    /\ wpos > Len(extracted_words)
    /\ num = Len(infile)
    /\ pc' = "feat_done"
    /\ UNCHANGED textVars
    /\ UNCHANGED evalVars

NextFeat == FeatStart \/ FeatNextLine \/ FeatWord \/ FeatReturn

SpecFeat == InitFeat /\ [][NextFeat]_vars

----------------------------------------------------------------------------
(* Properties of extract_dictionary (SpecDict) *)

\* the words scanned so far: the lines before the current one, then the words
\* of the current line that the inner loop has passed
Scanned == WordsOfLines(infile, IF num = 0 THEN 0 ELSE num - 1)
               \o SubSeq(extracted_words, 1, wpos - 1)

FirstPos(ws, w) == CHOOSE i \in 1..Len(ws) : ws[i] = w /\ \A j \in 1..(i - 1) : ws[j] # w

C2_DenseFirstSeen ==
    /\ DOMAIN word_list = Range(Scanned)
    /\ index = Cardinality(DOMAIN word_list)
    /\ {word_list[w] : w \in DOMAIN word_list} = 0..(index - 1)
    /\ \A v, w \in DOMAIN word_list : word_list[v] = word_list[w] => v = w
    /\ \A w \in DOMAIN word_list :
          word_list[w] = Cardinality(Range(SubSeq(Scanned, 1, FirstPos(Scanned, w) - 1)))

C2_IndexKept ==
    \A w \in DOMAIN word_list : w \in DOMAIN word_list' /\ word_list'[w] = word_list[w]

\* C2: after every step of extract_dictionary's scan the dictionary maps the
\* distinct words seen so far one-to-one onto 0..size-1 in first-occurrence
\* order, and no step changes the index of a word that already has one.
C2_VocabularyDenseAndStable == [](C2_DenseFirstSeen) /\ [][C2_IndexKept]_vars

\* C2 witness: the scan has ended on a file of two lines whose second line
\* repeats a word of the first and brings a new one.
C2_Witness ==
    /\ pc = "dict_done"
    /\ Len(infile) = 2
    /\ index >= 2
    /\ \E w \in Range(extract_words(infile[1])) :
          /\ w \in Range(extract_words(infile[2]))
          /\ \E v \in Range(extract_words(infile[2])) : word_list[v] > word_list[w]

----------------------------------------------------------------------------
(* Properties of extract_feature_vectors (SpecFeat) *)

AllWords == WordsOfLines(infile, Len(infile))

\* the presence matrix of a file over a dictionary
Presence(f, d) ==
    [r \in 1..Len(f) |->
        [j \in 1..Cardinality(DOMAIN d) |->
            IF \E w \in Range(extract_words(f[r])) \cap DOMAIN d : d[w] = j - 1
            THEN 1 ELSE 0]]

Ones(row) == Cardinality({j \in 1..Len(row) : row[j] = 1})

\* C1 as claimed: a word that is no key of the dictionary is dropped without
\* an error, and the matrix returned is the presence matrix of the words
\* that are keys.
C1_UnknownWordDropped ==
    /\ pc # "KeyError"
    /\ pc = "feat_done" => feature_matrix = Presence(infile, word_list)

\* C1 as amended: extract_feature_vectors raises KeyError at the first word
\* that is no key of the dictionary, after setting the cells of the words
\* before it, and returns a matrix only for a file all of whose words are keys.
C1_UnknownWordRaisesKeyError ==
    /\ pc = "KeyError" =>
          /\ wpos <= Len(extracted_words)
          /\ extracted_words[wpos] \notin DOMAIN word_list
          /\ Range(Scanned) \subseteq DOMAIN word_list
          /\ \A w \in Range(SubSeq(extracted_words, 1, wpos - 1)) :
                feature_matrix[num][word_list[w] + 1] = 1
    /\ pc = "feat_done" => Range(AllWords) \subseteq DOMAIN word_list
    /\ (pc \in {"feat", "KeyError"} /\ ~(Range(Scanned) \subseteq DOMAIN word_list))
          => pc = "KeyError"

\* C1 witness: KeyError raised in a line after a word of that line was found
\* in the dictionary and its cell set.
C1_Witness ==
    /\ pc = "KeyError"
    /\ wpos > 1
    /\ Ones(feature_matrix[num]) >= 1

----------------------------------------------------------------------------
(* A call of performance (SpecPerf) *)

InitPerf ==
    /\ pc = "perf"
    /\ TextIdle
    /\ \E n \in 1..MaxVecLen :
          /\ y_true \in [1..n -> Labels]
          /\ y_pred \in [1..n -> PredVals]
    /\ metric \in MetricArgs
    /\ score = NoValue
    /\ CvIdle
    /\ SelIdle

\* score = performance(y_true, y_pred, metric)
PerfCall ==
    /\ pc = "perf"
    /\ LET out == performance(y_true, y_pred, metric) IN
         IF out.raised = "none"
         THEN /\ score' = out.value
              /\ pc' = "perf_done"
         ELSE /\ pc' = out.raised
              /\ UNCHANGED score
    /\ UNCHANGED <<textVars, perfVars, metric, cvVars, selVars>>

NextPerf == PerfCall

SpecPerf == InitPerf /\ [][NextPerf]_vars

\* the label performance derives from a prediction according to the claims
SignLabel(v) == IF v >= 0 THEN 1 ELSE -1

C5_AccuracyOfSignLabels ==
    (pc = "perf_done" /\ metric = "accuracy") =>
        /\ score = FlRatio(Cardinality({i \in 1..Len(y_true) :
                                           y_true[i] = SignLabel(y_pred[i])}),
                           Len(y_true))
        /\ y_pred = y_true => score = Fl(1)
        /\ (\E i \in 1..Len(y_true) : y_pred[i] = 0 /\ y_true[i] = -1) => score # Fl(1)

\* C5 witness: accuracy has been returned for predictions of 0 against a
\* label +1 and against a label -1.
C5_Witness ==
    /\ pc = "perf_done"
    /\ metric = "accuracy"
    /\ \E i, j \in 1..Len(y_true) :
          /\ y_pred[i] = 0 /\ y_true[i] = 1
          /\ y_pred[j] = 0 /\ y_true[j] = -1

----------------------------------------------------------------------------
(* Data, folds and the classifier *)

\* labels +1, -1, +1, ...
Alternating(n) == [i \in 1..n |-> IF i % 2 = 1 THEN 1 ELSE -1]

\* the labels of data sorted by class
Halves(n) == [i \in 1..n |-> IF 2 * i <= n THEN 1 ELSE -1]

\* k folds of s examples each over examples 1..k*s, as KFold cuts them: the
\* test indices of fold f are its block, the train indices are all the others
Blocks(k, s) ==
    [f \in 1..k |->
        [train |-> [i \in 1..((k - 1) * s) |-> IF i <= (f - 1) * s THEN i ELSE i + s],
         test  |-> [i \in 1..s |-> (f - 1) * s + i]]]

\* v[idx] for an index array idx
Take(v, idx) == [i \in 1..Len(idx) |-> v[idx[i]]]

\* the state clf.fit(X[rows], labels) leaves the classifier in; the rows of X
\* are named by their indices
Fit(rows, labels) == [fitted |-> TRUE, X |-> rows, y |-> labels]

AllRows(labels) == [i \in 1..Len(labels) |-> i]

\* SVC.fit raises ValueError unless the labels hold at least two classes
FitRaises(labels) == Cardinality(Range(labels)) < 2

----------------------------------------------------------------------------
(* cv_performance (SpecCV) *)

InitCV ==
    /\ pc = "cv"
    /\ TextIdle
    /\ PerfIdle
    /\ metric \in MetricArgs
    /\ \E k \in 0..MaxFolds :
       \E s \in 1..MaxExamples :
          /\ k * s <= (IF metric = "accuracy" THEN MaxExamples ELSE MaxFewExamples)
          /\ kf = Blocks(k, s)
          /\ y \in {Alternating(k * s), Halves(k * s)}
    /\ clf \in IF FitRaises(y) THEN {Unfitted} ELSE {Unfitted, Fit(AllRows(y), y)}
    /\ fold = 1
    /\ accuracy_list = <<>>
    /\ scored_with = NotScored
    /\ score = NoValue
    /\ SelIdle

\* clf.fit on all of X and y
CVFit_AllData ==
    /\ pc = "cv"
    /\ fold <= Len(kf)
    /\ IF FitRaises(y)
       THEN pc' = "ValueError" /\ UNCHANGED clf
       ELSE clf' = Fit(AllRows(y), y) /\ pc' = "cv_fitted"
    /\ UNCHANGED <<textVars, perfVars, metric, score, y, kf, fold, accuracy_list,
                   scored_with, selVars>>

\* for train, test in kf: clf.fit(X[train], y[train])
CVFit ==
    /\ pc = "cv"
    /\ fold <= Len(kf)
    /\ IF FitRaises(Take(y, kf[fold].train))
       THEN pc' = "ValueError" /\ UNCHANGED clf
       ELSE clf' = Fit(kf[fold].train, Take(y, kf[fold].train)) /\ pc' = "cv_fitted"
    /\ UNCHANGED <<textVars, perfVars, metric, score, y, kf, fold, accuracy_list,
                   scored_with, selVars>>

\* predictions = clf.decision_function(X[test])
\* accuracy_list.append(performance(y[test], predictions, metric))
CVScore ==
    /\ pc = "cv_fitted"
    /\ \E predictions \in [1..Len(kf[fold].test) -> PredVals] :
          LET out == performance(Take(y, kf[fold].test), predictions, metric) IN
            IF out.raised = "none"
            THEN /\ accuracy_list' = Append(accuracy_list, out.value)
                 /\ fold' = fold + 1
                 /\ pc' = "cv"
            ELSE /\ pc' = out.raised
                 /\ UNCHANGED <<accuracy_list, fold>>
    /\ scored_with' = [model |-> clf, X |-> kf[fold].test]
    /\ UNCHANGED <<textVars, perfVars, metric, score, y, kf, clf, selVars>>

\* return 0 for an empty accuracy_list
CVReturn_ZeroForNoFolds ==
    /\ pc = "cv"
    /\ fold > Len(kf)
    /\ score' = IF accuracy_list = <<>> THEN Fl(0)
                ELSE FlDiv(FlSum(accuracy_list), Len(accuracy_list))
    /\ pc' = "cv_done"
    /\ UNCHANGED <<textVars, perfVars, metric, cvVars, selVars>>

\* return of the sum divided by one less than the number of folds
CVReturn_OneLess ==
    /\ pc = "cv"
    /\ fold > Len(kf)
    /\ IF Len(accuracy_list) <= 1
       THEN /\ pc' = "ZeroDivisionError"
            /\ UNCHANGED score
       ELSE /\ score' = FlDiv(FlSum(accuracy_list), Len(accuracy_list) - 1)
            /\ pc' = "cv_done"
    /\ UNCHANGED <<textVars, perfVars, metric, cvVars, selVars>>

\* return sum(accuracy_list)/float(len(accuracy_list))
CVReturn ==
    /\ pc = "cv"
    /\ fold > Len(kf)
    /\ IF Len(accuracy_list) = 0
       THEN /\ pc' = "ZeroDivisionError"
            /\ UNCHANGED score
       ELSE /\ score' = FlDiv(FlSum(accuracy_list), Len(accuracy_list))
            /\ pc' = "cv_done"
    /\ UNCHANGED <<textVars, perfVars, metric, cvVars, selVars>>

NextCV == CVFit \/ CVScore \/ CVReturn

SpecCV == InitCV /\ [][NextCV]_vars

\* the rearrangements of a sequence
Perms(list) ==
    {[i \in 1..Len(list) |-> list[p[i]]] :
        p \in {q \in [1..Len(list) -> 1..Len(list)] : \A i, j \in 1..Len(list) : q[i] = q[j] => i = j}}

Mean(list) == FlDiv(FlSum(list), Len(list))

\* no addition of sum(list) is rounded
SumIsExact(list) ==
    \A i \in 1..Len(list) :
        LET acc == FlSum(SubSeq(list, 1, i - 1))
        IN FlAdd(acc, list[i]).mag = AddMag(acc.mag, list[i].mag)

C7_NoFoldsRaises ==
    Len(kf) = 0 =>
        /\ pc \in {"cv", "ZeroDivisionError"}
        /\ score = NoValue
        /\ accuracy_list = <<>>

\* C7 witness: ZeroDivisionError has been raised for an empty fold sequence.
C7_Witness == Len(kf) = 0 /\ pc = "ZeroDivisionError"

\* C9: when a fold's held-out rows are scored, the classifier is in the state
\* the fit on that fold's training rows left it in, and those training rows
\* hold none of the held-out rows.
C9_ScoredWithOwnFoldFit ==
    /\ pc = "cv_fitted" =>
          clf = Fit(kf[fold].train, Take(y, kf[fold].train))
    /\ scored_with # NotScored =>
          \E f \in 1..Len(kf) :
             /\ f = IF pc = "cv_fitted" \/ pc = "cv" \/ pc = "cv_done" THEN fold - 1 ELSE f
             /\ scored_with.X = kf[f].test
             /\ scored_with.model = Fit(kf[f].train, Take(y, kf[f].train))
             /\ Range(scored_with.model.X) \cap Range(scored_with.X) = {}

\* C9 witness: the second of three folds has been scored, by the fit on its
\* own training rows, after the classifier had been fit on the first fold's.
C9_Witness ==
    /\ pc = "cv"
    /\ fold = 3
    /\ Len(kf) = 3
    /\ scored_with.model.X = kf[2].train
    /\ scored_with.model.X # kf[1].train

----------------------------------------------------------------------------
(* cv_performance as select_param_linear calls it *)

\* what fold f of cv_performance can come to: the ValueError of clf.fit, or
\* the outcome of performance for some predictions on the held-out rows
FoldOutcomes(labels, folds, m) ==
    [f \in 1..Len(folds) |->
        IF FitRaises(Take(labels, folds[f].train))
        THEN {Raise("ValueError")}
        ELSE {performance(Take(labels, folds[f].test), predictions, m) :
                 predictions \in [1..Len(folds[f].test) -> PredVals]}]

\* the outcome of cv_performance when fold f comes to out[f]: the first
\* exception of the loop, or sum(accuracy_list)/float(len(accuracy_list))
cv_performance(out) ==
    LET bad == {f \in 1..Len(out) : out[f].raised # "none"}
    IN IF bad # {} THEN out[CHOOSE f \in bad : \A g \in bad : f <= g]
       ELSE IF Len(out) = 0 THEN Raise("ZeroDivisionError")
       ELSE Return(FlDiv(FlSum([f \in 1..Len(out) |-> out[f].value]), Len(out)))

CvOutcomes(labels, folds, m) ==
    LET each == FoldOutcomes(labels, folds, m)
    IN {cv_performance(out) :
           out \in {o \in [1..Len(folds) -> UNION {each[f] : f \in 1..Len(folds)}] :
                       \A f \in 1..Len(folds) : o[f] \in each[f]}}

----------------------------------------------------------------------------
(* select_param_linear (SpecSelect) *)

\* np.arange(-3, 3)
arange == [i \in 1..6 |-> i - 4]

\* 10.0 ** e as the fraction <<numerator, denominator>>
Pow10(e) == IF e >= 0 THEN <<10^e, 1>> ELSE <<1, 10^(0 - e)>>

\* C_range = 10.0 ** np.arange(-3, 3)
C_range == [i \in 1..Len(arange) |-> Pow10(arange[i])]

\* the arguments y, kf, metric of the calls explored
SelectArgs ==
    {a \in {<<Alternating(k * s), Blocks(k, s), m>> :
                k \in 0..MaxSelFolds, s \in 1..MaxSelExamples, m \in MetricArgs} :
        Len(a[1]) <= (IF a[3] = "accuracy" THEN MaxSelExamples ELSE MaxSelFewExamples)}

\* cv_performance(clf, X, y, kf, metric) for each of them
CvTable == [a \in SelectArgs |-> CvOutcomes(a[1], a[2], a[3])]

InitSelect ==
    /\ pc = "select"
    /\ TextIdle
    /\ PerfIdle
    /\ \E a \in SelectArgs :
          /\ y = a[1]
          /\ kf = a[2]
          /\ metric = a[3]
    /\ clf = Unfitted
    /\ fold = 1
    /\ accuracy_list = <<>>
    /\ scored_with = NotScored
    /\ score = NoValue
    /\ SelIdle

\* the loop body with max_score left as it is
SelectCandidate_StaleMax ==
    /\ pc = "select"
    /\ c <= Len(C_range)
    /\ \E out \in CvTable[<<y, kf, metric>>] :
          IF out.raised # "none"
          THEN /\ pc' = out.raised
               /\ UNCHANGED selVars
          ELSE /\ cur_perf' = Append(cur_perf, out.value)
               /\ IF FlGe(out.value, max_score)
                  THEN best_c' = C_range[c]
                  ELSE UNCHANGED best_c
               /\ UNCHANGED max_score
               /\ c' = c + 1
               /\ UNCHANGED pc
    /\ UNCHANGED <<textVars, perfVars, metric, score, cvVars>>

\* the loop body with > in place of >=
SelectCandidate_StrictlyGreater ==
    /\ pc = "select"
    /\ c <= Len(C_range)
    /\ \E out \in CvTable[<<y, kf, metric>>] :
          IF out.raised # "none"
          THEN /\ pc' = out.raised
               /\ UNCHANGED selVars
          ELSE /\ cur_perf' = Append(cur_perf, out.value)
               /\ IF FlGe(out.value, max_score) /\ out.value # max_score
                  THEN max_score' = out.value /\ best_c' = C_range[c]
                  ELSE UNCHANGED <<max_score, best_c>>
               /\ c' = c + 1
               /\ UNCHANGED pc
    /\ UNCHANGED <<textVars, perfVars, metric, score, cvVars>>

\* for c in range(0, len(C_range)):
\*     clf = SVC(kernel='linear', C=C_range[c])
\*     cur_perf = cv_performance(clf, X, y, kf, metric)
\*     if cur_perf >= max_score: max_score = cur_perf; best_c = C_range[c]
\* clf is a new object in every pass and is dropped at its end
SelectCandidate ==
    /\ pc = "select"
    /\ c <= Len(C_range)
    /\ \E out \in CvTable[<<y, kf, metric>>] :
          IF out.raised # "none"
          THEN /\ pc' = out.raised
               /\ UNCHANGED selVars
          ELSE /\ cur_perf' = Append(cur_perf, out.value)
               /\ IF FlGe(out.value, max_score)
                  THEN max_score' = out.value /\ best_c' = C_range[c]
                  ELSE UNCHANGED <<max_score, best_c>>
               /\ c' = c + 1
               /\ UNCHANGED pc
    /\ UNCHANGED <<textVars, perfVars, metric, score, cvVars>>

\* return best_c
SelectReturn ==
    /\ pc = "select"
    /\ c > Len(C_range)
    /\ pc' = "select_done"
    /\ UNCHANGED <<textVars, evalVars>>

NextSelect == SelectCandidate \/ SelectReturn

SpecSelect == InitSelect /\ [][NextSelect]_vars

\* a < b for fractions with positive denominators
LessFraction(a, b) == a[1] * b[2] < b[1] * a[2]

\* C3: the candidates are tried in ascending order, and the candidate
\* returned is the last one tried whose score is the greatest of the six
\* scores; six strictly increasing scores return 10^2.
C3_LastOfTheBest ==
    /\ \A i, j \in 1..Len(C_range) : i < j => LessFraction(C_range[i], C_range[j])
    /\ pc = "select" => Len(cur_perf) = c - 1
    /\ pc = "select_done" =>
          /\ Len(cur_perf) = Len(C_range)
          /\ \E i \in 1..Len(C_range) :
                /\ best_c = C_range[i]
                /\ max_score = cur_perf[i]
                /\ \A j \in 1..Len(C_range) : FlGe(cur_perf[i], cur_perf[j])
                /\ \A j \in (i + 1)..Len(C_range) : cur_perf[j] # cur_perf[i]
          /\ (\A j \in 2..Len(C_range) :
                 FlGe(cur_perf[j], cur_perf[j - 1]) /\ cur_perf[j] # cur_perf[j - 1])
                => best_c = <<100, 1>>

\* C3 witness: the second and the fourth candidate scored the same, every
\* other candidate scored less, and the fourth, 10^0, has been returned.
C3_Witness ==
    /\ pc = "select_done"
    /\ cur_perf[2] = cur_perf[4]
    /\ \A j \in {1, 3, 5, 6} : ~FlGe(cur_perf[j], cur_perf[4])
    /\ best_c = <<1, 1>>

\* C10: when every candidate's score is >= -1 the value returned is one of
\* the six of C_range and not the initial -1; with a metric name performance
\* does not know, every score is -1, no candidate that was scored is followed
\* by an exception, and the value returned is 10^2.
C10_NeverThePlaceholder ==
    /\ (pc = "select_done" /\ \A i \in 1..Len(cur_perf) : FlGe(cur_perf[i], Fl(-1)))
          => best_c \in Range(C_range) /\ best_c # <<-1, 1>>
    /\ metric \notin SupportedMetrics =>
          /\ \A i \in 1..Len(cur_perf) : cur_perf[i] = Fl(-1)
          /\ cur_perf # <<>> => pc \in {"select", "select_done"}
          /\ pc = "select_done" => best_c = <<100, 1>>

\* C10 witness: with an unknown metric name all six scores were -1 and 10^2
\* has been returned.
C10_Witness ==
    /\ pc = "select_done"
    /\ metric \notin SupportedMetrics
    /\ Len(cur_perf) = Len(C_range)
    /\ \A i \in 1..Len(cur_perf) : cur_perf[i] = Fl(-1)
    /\ best_c = <<100, 1>>

====
